---- MODULE Spec2Model ----
(***************************************************************************)
(* The ingestion (/upload) and query (/chat) handlers of src/app.py, with  *)
(* the collaborators they call (upload folder, PDF loader, text splitter,  *)
(* Embedder, Pinecone index, generative model) as shared state and         *)
(* nondeterministic outcomes.  Flask serves requests on threads, so each   *)
(* handler is cut into steps at its file-system and collaborator calls.    *)
(***************************************************************************)
EXTENDS Integers, Sequences, FiniteSets, TLC

\* ---------------------------------------------------------------- bounds
\* Number of requests served in one run.
MaxRequests == 2

\* Largest text and largest chunk size the splitter is tried on exhaustively.
MaxTextLen == 8
MaxChunkSize == 4

\* Request-handling threads of the Flask server.
Threads == {"t1", "t2"}

\* ------------------------------------------------------ program constants
ChunkSize == 800
ChunkOverlap == 80
TopK == 4

\* Length of the vectors of models/gemini-embedding-001.
EmbedderDim == 3072

UPLOAD_FOLDER == <<"/", "t", "m", "p">>

\* ------------------------------------------------------------------ inputs
\* File names are sequences of characters, so that endswith and
\* secure_filename act on them as the library does.
PdfSuffix == <<".", "p", "d", "f">>

Filenames ==
    { <<"a", " ", "b">> \o PdfSuffix,
      <<"a", "_", "b">> \o PdfSuffix,
      <<"c", ".", "t", "x", "t">> }

\* request.files.get('file') when the form has no file part (falsy, like a
\* FileStorage with an empty filename).
NoUpload == <<>>

\* A PDF's extracted text, abstracted to its length in characters.
DocLens == {0, 1500}

\* Length of the text a previous run of the server may have indexed.
PriorLen == 2000

Questions == {"What is the tuition fee?", "Which courses are offered?"}

\* request.json when the body is not JSON.
NoBody == "None"

\* str(e) of an exception raised by a collaborator.
ProviderErrors == {"deadline exceeded", "quota exhausted"}
FileNotFound == "No such file or directory"

\* The dimension the Pinecone index of the deployment was created with.
IndexDims == {768, EmbedderDim}

\* The index's rejection of a vector of another length.
DimensionMismatch == "Vector dimension does not match the dimension of the index"
NoneHasNoGet == "'NoneType' object has no attribute 'get'"

\* The reply the system prompt tells the model to give when the context
\* does not hold the answer.
NotFoundMessage == "I'm sorry, I couldn't find that specific information"
ModelTexts == {NotFoundMessage, "The tuition fee is listed on page 3."}

\* ----------------------------------------------------------- pure helpers
Min(a, b) == IF a < b THEN a ELSE b

endswith(s, suffix) ==
    /\ Len(s) >= Len(suffix)
    /\ SubSeq(s, Len(s) - Len(suffix) + 1, Len(s)) = suffix

\* werkzeug.utils.secure_filename: path separators become spaces, the
\* words are joined by "_", characters outside [A-Za-z0-9_.-] are dropped
\* and leading/trailing "." and "_" are stripped.
FilenameAscii ==
    {"a", "b", "c", "d", "f", "p", "t", "x", "_", ".", "-"}

ReplaceSep(s) == [i \in 1..Len(s) |-> IF s[i] = "/" THEN " " ELSE s[i]]

RECURSIVE WordLen(_)
WordLen(s) ==
    IF s = <<>> \/ Head(s) = " " THEN 0 ELSE 1 + WordLen(Tail(s))

RECURSIVE split(_)
split(s) ==
    IF s = <<>> THEN <<>>
    ELSE IF Head(s) = " " THEN split(Tail(s))
    ELSE <<SubSeq(s, 1, WordLen(s))>> \o split(SubSeq(s, WordLen(s) + 1, Len(s)))

RECURSIVE join(_, _)
join(sep, words) ==
    IF words = <<>> THEN <<>>
    ELSE IF Len(words) = 1 THEN words[1]
    ELSE words[1] \o <<sep>> \o join(sep, Tail(words))

RECURSIVE lstrip(_, _)
lstrip(s, chars) ==
    IF s # <<>> /\ Head(s) \in chars THEN lstrip(Tail(s), chars) ELSE s

RECURSIVE rstrip(_, _)
rstrip(s, chars) ==
    IF s # <<>> /\ s[Len(s)] \in chars
    THEN rstrip(SubSeq(s, 1, Len(s) - 1), chars)
    ELSE s

secure_filename(name) ==
    LET joined == join("_", split(ReplaceSep(name)))
        ascii == SelectSeq(joined, LAMBDA c : c \in FilenameAscii)
    IN  rstrip(lstrip(ascii, {".", "_"}), {".", "_"})

\* os.path.join(app.config['UPLOAD_FOLDER'], filename)
path_join(folder, name) == folder \o <<"/">> \o name

SavePath(name) == path_join(UPLOAD_FOLDER, secure_filename(name))

\* if not file or not file.filename.endswith('.pdf')
IsValidUpload(file) == file # NoUpload /\ endswith(file, PdfSuffix)

\* A splitter that emits full windows only and drops the shorter tail.
RECURSIVE split_text_NoTail(_, _, _, _)
split_text_NoTail(len, chunk_size, chunk_overlap, start) ==
    IF start + chunk_size > len THEN <<>>
    ELSE <<[start |-> start, end |-> start + chunk_size]>>
         \o split_text_NoTail(len, chunk_size, chunk_overlap,
                              start + (chunk_size - chunk_overlap))

\* RecursiveCharacterTextSplitter(chunk_size, chunk_overlap) on a text of
\* len characters: windows of chunk_size characters advancing by
\* chunk_size - chunk_overlap, the last one truncated to the text.
RECURSIVE split_text(_, _, _, _)
split_text(len, chunk_size, chunk_overlap, start) ==
    IF start >= len THEN <<>>
    ELSE LET end == Min(start + chunk_size, len)
         IN  <<[start |-> start, end |-> end]>>
             \o (IF end = len THEN <<>>
                 ELSE split_text(len, chunk_size, chunk_overlap,
                                 start + (chunk_size - chunk_overlap)))

\* The splitter as upload_file configures it.
Windows(len, start) == split_text(len, ChunkSize, ChunkOverlap, start)

\* PyPDFLoader(filepath).load() followed by split_documents: every chunk
\* carries the text span and the metadata source (the loaded path).
split_documents(path, doc) ==
    LET w == Windows(doc, 0)
    IN  [i \in 1..Len(w) |->
            [source |-> path, doc |-> doc, start |-> w[i].start, end |-> w[i].end]]

\* ---------------------------------------------------------- collaborators
\* GoogleGenerativeAIEmbeddings: a deterministic map from text to vector,
\* abstracted to one coordinate.
embed_documents(chunk) == ((chunk.doc \div 100) + (chunk.start \div 80)) % 7

embed_query(question) ==
    IF question = "What is the tuition fee?" THEN 2 ELSE 5

Abs(x) == IF x < 0 THEN 0 - x ELSE x

Score(qvec, rec) == 0 - Abs(qvec - rec.vector)

\* rec a ranks before rec b for the query vector: higher score first, ties
\* in the order of the record ids.
RanksBefore(qvec, a, b) ==
    \/ Score(qvec, a) > Score(qvec, b)
    \/ /\ Score(qvec, a) = Score(qvec, b)
       /\ \/ a.no < b.no
          \/ a.no = b.no /\ a.i < b.i

\* The index's ranking of all its records for a query vector.
RECURSIVE Ranked(_, _)
Ranked(records, qvec) ==
    IF records = {} THEN <<>>
    ELSE LET best == CHOOSE r \in records :
                        \A o \in records \ {r} : RanksBefore(qvec, r, o)
         IN  <<best>> \o Ranked(records \ {best}, qvec)

Take(seq, n) == SubSeq(seq, 1, Min(n, Len(seq)))

\* Pinecone query(vector, top_k=k): the k best matches, best first.
IndexQuery(records, qvec, k) == Take(Ranked(records, qvec), k)

\* A retriever that asks for one match more than the configured k.
Retrieve_OneMore(records, question) ==
    IndexQuery(records, embed_query(question), TopK + 1)

\* vectorstore.as_retriever(search_kwargs={"k": 4}) invoked on the question:
\* the documents handed to the stuff-documents chain.
Retrieve(records, question) == IndexQuery(records, embed_query(question), TopK)

\* create_stuff_documents_chain: the system prompt with {context} replaced
\* by the retrieved page contents in order, and the human message {input}.
RenderPrompt(question, passages) ==
    [system |-> "College Admission Assistant",
     context |-> [i \in 1..Len(passages) |->
                     [doc |-> passages[i].doc, start |-> passages[i].start,
                      end |-> passages[i].end]],
     input |-> question]

\* The record upserted for the i-th chunk of request number no (the store
\* draws a fresh uuid4 per text; (no, i) is that fresh id).
IndexRecord(no, i, chunk) ==
    [no |-> no, i |-> i, source |-> chunk.source, doc |-> chunk.doc,
     start |-> chunk.start, end |-> chunk.end,
     vector |-> embed_documents(chunk)]

\* What a previous run of the server left in the Pinecone index.
PriorPath == path_join(UPLOAD_FOLDER, <<"o", "l", "d">> \o PdfSuffix)
PriorRecords ==
    LET chunks == split_documents(PriorPath, PriorLen)
    IN  {IndexRecord(0, i, chunks[i]) : i \in 1..Len(chunks)}

\* ------------------------------------------------------------------ state
VARIABLES
    req,              \* per thread: the request it is serving
    fs,               \* upload folder: saved path -> content
    index,            \* records held by the Pinecone index
    vsConstructions,  \* PineconeVectorStore handles constructed so far
    started,          \* requests received so far
    indexDim,         \* dimension of the Pinecone index
    chunking          \* the text splitter's input and output

vars == <<req, fs, index, vsConstructions, started, indexDim, chunking>>

NoResponse == [code |-> 0, key |-> "none", text |-> <<>>]
NoPrompt == [system |-> "", context |-> <<>>, input |-> NoBody]

IdleReq ==
    [kind |-> "idle", stage |-> "Idle", no |-> 0,
     file |-> NoUpload, doc |-> 0, filepath |-> <<>>,
     loaded |-> 0, splits |-> <<>>, upserted |-> 0, upsertCalls |-> 0,
     question |-> NoBody, retrieved |-> <<>>, prompt |-> NoPrompt,
     answer |-> "", genCalls |-> 0,
     response |-> NoResponse,
     \* history kept for the properties
     trace |-> <<>>, failedAt |-> "none", cause |-> "none",
     overlap |-> "none", before |-> 0, ranking |-> <<>>]

Terminal == {"Done", "Failed", "Rejected"}

InFlight(r) == r.kind # "idle" /\ r.stage \notin Terminal

NoChunking == [pc |-> "off", len |-> 0, size |-> 0, overlap |-> 0, chunks |-> <<>>]

\* The module-level construction of the shared vectorstore handle.
Init ==
    /\ req = [t \in Threads |-> IdleReq]
    /\ fs = <<>>
    /\ index \in {{}, PriorRecords}
    /\ vsConstructions = 1
    /\ started = 0
    /\ indexDim \in IndexDims
    /\ chunking = NoChunking

Enter(r, stage) == [r EXCEPT !.stage = stage, !.trace = Append(@, stage)]

jsonify(code, key, text) == [code |-> code, key |-> key, text |-> text]

\* A handler that records the exception and carries on.
UploadFailed_Swallowed(r, e) == [r EXCEPT !.cause = e]

\* except Exception as e: return jsonify({"error": f"Upload process failed: {str(e)}"}), 500
UploadFailed(r, e) ==
    [Enter(r, "Failed") EXCEPT
        !.response = jsonify(500, "error", <<"Upload process failed: ", e>>),
        !.failedAt = "ingestion", !.cause = e]

\* A handler that answers with the fallback sentence when a call fails.
ChatFailed_Fallback(r, at, e) ==
    [Enter(r, "Failed") EXCEPT
        !.response = jsonify(200, "answer", <<NotFoundMessage>>),
        !.failedAt = at, !.cause = e]

\* except Exception as e: return jsonify({"error": f"Assistant is busy: {str(e)}"}), 500
ChatFailed(r, at, e) ==
    [Enter(r, "Failed") EXCEPT
        !.response = jsonify(500, "error", <<"Assistant is busy: ", e>>),
        !.failedAt = at, !.cause = e]

\* How a request that is being received relates to request u already in
\* flight: "same" when both upload under the same client file name.
Relation(kind, file, u) ==
    IF ~InFlight(u) THEN "none"
    ELSE IF kind = "upload" /\ u.kind = "upload" /\ u.file = file THEN "same"
    ELSE "other"

Worse(a, b) ==
    IF "same" \in {a, b} THEN "same"
    ELSE IF "other" \in {a, b} THEN "other" ELSE "none"

RECURSIVE WorstOf(_)
WorstOf(S) ==
    IF S = {} THEN "none"
    ELSE LET x == CHOOSE y \in S : TRUE IN Worse(x, WorstOf(S \ {x}))

\* req with thread t serving the new request r, and the overlap history of
\* every request in flight brought up to date.
Admit(t, r) ==
    [u \in Threads |->
        IF u = t
        THEN [r EXCEPT !.overlap =
                 WorstOf({Relation(r.kind, r.file, req[v]) : v \in Threads \ {t}})]
        ELSE [req[u] EXCEPT !.overlap = Worse(@, Relation(r.kind, r.file, req[u]))]]

CountFor(records, path, doc) ==
    Cardinality({x \in records : x.source = path /\ x.doc = doc})

FsWrite(path, doc) ==
    [p \in DOMAIN fs \cup {path} |-> IF p = path THEN doc ELSE fs[p]]

FsRemove(path) == [p \in DOMAIN fs \ {path} |-> fs[p]]

\* ------------------------------------------------------- /upload handler
\* file = request.files.get('file'); the validity test; secure_filename,
\* os.path.join and file.save(filepath).
UploadReceive(t, file, doc) ==
    /\ req[t].kind = "idle"
    /\ started < MaxRequests
    /\ started' = started + 1
    /\ LET r0 == [Enter(IdleReq, "Received") EXCEPT
                     !.kind = "upload", !.no = started + 1, !.file = file]
       IN  IF ~IsValidUpload(file)
           THEN /\ doc = 0
                /\ req' = [req EXCEPT ![t] =
                      [Enter(r0, "Rejected") EXCEPT
                          !.response = jsonify(400, "error",
                              <<"Please provide a valid PDF prospectus.">>)]]
                /\ fs' = fs
           ELSE /\ req' = Admit(t, [r0 EXCEPT
                          !.doc = doc,
                          !.filepath = SavePath(file),
                          !.before = CountFor(index, SavePath(file), doc)])
                /\ fs' = FsWrite(SavePath(file), doc)
    /\ UNCHANGED <<index, vsConstructions, indexDim, chunking>>

\* The request after loader.load() and split_documents returned.
Chunked(r, content) ==
    [Enter(r, "Chunked") EXCEPT
        !.loaded = content,
        !.splits = split_documents(r.filepath, content)]

\* PyPDFLoader(filepath); loader.load(); RecursiveCharacterTextSplitter;
\* split_documents.  The loader reads whatever the path holds now.
UploadChunk(t) ==
    /\ req[t].kind = "upload" /\ req[t].stage = "Received"
    /\ \/ /\ req[t].filepath \notin DOMAIN fs
          /\ req' = [req EXCEPT ![t] = UploadFailed(@, FileNotFound)]
       \/ /\ req[t].filepath \in DOMAIN fs
          /\ \/ req' = [req EXCEPT ![t] = UploadFailed(@, "EOF marker not found")]
             \/ req' = [req EXCEPT ![t] = Chunked(@, fs[req[t].filepath])]
    /\ UNCHANGED <<fs, index, vsConstructions, started, indexDim, chunking>>

\* from_documents has upserted every chunk and returns.
AllUpserted(r) == r.upserted = Len(r.splits)

\* The request after the embeddings came back (and, with nothing left to
\* upsert, after from_documents returned).
Embedded(r) ==
    LET e == Enter(r, "Embedded")
    IN  IF AllUpserted(e) THEN Enter(e, "Indexed") ELSE e

\* PineconeVectorStore.from_documents(splits, embeddings, index_name=...,
\* pinecone_api_key=...): builds a vector store handle of its own, then
\* embeds the chunk texts.
UploadEmbed(t) ==
    /\ req[t].kind = "upload" /\ req[t].stage = "Chunked"
    /\ vsConstructions' = vsConstructions + 1
    /\ \/ \E e \in ProviderErrors :
             req' = [req EXCEPT ![t] = UploadFailed(@, e)]
       \/ req' = [req EXCEPT ![t] = Embedded(@)]
    /\ UNCHANGED <<fs, index, started, indexDim, chunking>>

\* The request after the upsert of its next chunk succeeded.
Upserted(r) ==
    LET u == [r EXCEPT !.upserted = @ + 1]
    IN  IF AllUpserted(u) THEN Enter(u, "Indexed") ELSE u

\* The request once the store has sent the upsert of its next chunk.
UpsertCalled(r) == [r EXCEPT !.upsertCalls = @ + 1]

\* The index takes vectors of its own dimension only.
IndexAccepts(dim) == dim = indexDim

\* An upsert loop that skips a chunk whose upsert raised.
UpsertFailed_Skipped(r, e) == Upserted(r)

\* The request after the upsert of its next chunk raised e.
UpsertFailed(r, e) == UploadFailed(r, e)

\* from_documents, continued: the upsert of the next chunk, sent to the
\* index with no check of the vector's length before it.  A failure leaves
\* the chunks already upserted in the index.
UploadUpsert(t) ==
    /\ req[t].kind = "upload" /\ req[t].stage = "Embedded"
    /\ ~AllUpserted(req[t])
    /\ \/ /\ \E e \in ProviderErrors :
                req' = [req EXCEPT ![t] = UpsertFailed(UpsertCalled(@), e)]
          /\ index' = index
       \/ /\ ~IndexAccepts(EmbedderDim)
          /\ req' = [req EXCEPT ![t] =
                        UpsertFailed(UpsertCalled(@), DimensionMismatch)]
          /\ index' = index
       \/ /\ IndexAccepts(EmbedderDim)
          /\ req' = [req EXCEPT ![t] = Upserted(UpsertCalled(@))]
          /\ index' = index \cup
                {IndexRecord(req[t].no, req[t].upserted + 1,
                             req[t].splits[req[t].upserted + 1])}
    /\ UNCHANGED <<fs, vsConstructions, started, indexDim, chunking>>

\* return jsonify({"message": f"Successfully indexed {filename}! ..."})
UploadSucceeded(r) ==
    [Enter(r, "Done") EXCEPT
        !.response = jsonify(200, "message",
            <<"Successfully indexed ", secure_filename(r.file)>>)]

\* os.remove(filepath) and the success response.
UploadRemove(t) ==
    /\ req[t].kind = "upload" /\ req[t].stage = "Indexed"
    /\ \/ /\ req[t].filepath \notin DOMAIN fs
          /\ req' = [req EXCEPT ![t] = UploadFailed(@, FileNotFound)]
          /\ fs' = fs
       \/ /\ req[t].filepath \in DOMAIN fs
          /\ req' = [req EXCEPT ![t] = UploadSucceeded(@)]
          /\ fs' = FsRemove(req[t].filepath)
    /\ UNCHANGED <<index, vsConstructions, started, indexDim, chunking>>

\* --------------------------------------------------------- /chat handler
\* data = request.json; question = data.get('question')
ChatReceive(t, body) ==
    /\ req[t].kind = "idle"
    /\ started < MaxRequests
    /\ started' = started + 1
    /\ LET r0 == [Enter(IdleReq, "Received") EXCEPT
                     !.kind = "chat", !.no = started + 1, !.question = body]
       IN  IF body = NoBody
           THEN req' = [req EXCEPT ![t] = ChatFailed(r0, "request", NoneHasNoGet)]
           ELSE req' = Admit(t, r0)
    /\ UNCHANGED <<fs, index, vsConstructions, indexDim, chunking>>

\* The request after the retriever returned its documents; ranking keeps
\* the index's full ranking at the time of the query.
Retrieved(r, docs, ranking) ==
    [Enter(r, "Retrieved") EXCEPT !.retrieved = docs, !.ranking = ranking]

\* rag_chain.invoke, first half: the retriever embeds the question and
\* queries the shared vectorstore.
ChatRetrieve(t) ==
    /\ req[t].kind = "chat" /\ req[t].stage = "Received"
    /\ \/ \E e \in ProviderErrors :
             req' = [req EXCEPT ![t] = ChatFailed(@, "retrieval", e)]
       \/ /\ ~IndexAccepts(EmbedderDim)
          /\ req' = [req EXCEPT ![t] =
                        ChatFailed(@, "retrieval", DimensionMismatch)]
       \/ /\ IndexAccepts(EmbedderDim)
          /\ req' = [req EXCEPT ![t] =
                        Retrieved(@, Retrieve(index, req[t].question),
                                  Ranked(index, embed_query(req[t].question)))]
    /\ UNCHANGED <<fs, index, vsConstructions, started, indexDim, chunking>>

\* A chain that skips the model call when nothing was retrieved.
Prompted_ShortCircuit(r) ==
    IF r.retrieved = <<>> THEN r
    ELSE [r EXCEPT !.prompt = RenderPrompt(r.question, r.retrieved),
                   !.genCalls = @ + 1]

\* The request once the stuff-documents chain has rendered its prompt and
\* called the model.
Prompted(r) ==
    [r EXCEPT !.prompt = RenderPrompt(r.question, r.retrieved),
              !.genCalls = @ + 1]

\* rag_chain.invoke, second half: the prompt is rendered from the retrieved
\* documents and the model is called; its reply is the answer.
ChatSynthesize(t) ==
    /\ req[t].kind = "chat" /\ req[t].stage = "Retrieved"
    /\ \/ \E e \in ProviderErrors :
             req' = [req EXCEPT ![t] = ChatFailed(Prompted(@), "synthesis", e)]
       \/ \E text \in ModelTexts :
             req' = [req EXCEPT ![t] =
                        [Enter(Prompted(@), "Synthesized") EXCEPT !.answer = text]]
    /\ UNCHANGED <<fs, index, vsConstructions, started, indexDim, chunking>>

\* A handler that treats an empty retrieval as an error of its own.
Answered_EmptyIsError(r) ==
    IF r.retrieved = <<>>
    THEN ChatFailed(r, "synthesis", "no documents retrieved")
    ELSE [Enter(r, "Done") EXCEPT
             !.response = jsonify(200, "answer", <<r.answer>>)]

\* return jsonify({"answer": response["answer"]})
Answered(r) ==
    [Enter(r, "Done") EXCEPT !.response = jsonify(200, "answer", <<r.answer>>)]

ChatReturn(t) ==
    /\ req[t].kind = "chat" /\ req[t].stage = "Synthesized"
    /\ req' = [req EXCEPT ![t] = Answered(@)]
    /\ UNCHANGED <<fs, index, vsConstructions, started, indexDim, chunking>>

\* The response has been sent; the thread takes the next request.
Finish(t) ==
    /\ req[t].stage \in Terminal
    /\ req' = [req EXCEPT ![t] = IdleReq]
    /\ UNCHANGED <<fs, index, vsConstructions, started, indexDim, chunking>>

Next ==
    \E t \in Threads :
        \/ \E file \in Filenames \cup {NoUpload}, doc \in DocLens :
              UploadReceive(t, file, doc)
        \/ UploadChunk(t)
        \/ UploadEmbed(t)
        \/ UploadUpsert(t)
        \/ UploadRemove(t)
        \/ \E body \in Questions \cup {NoBody} : ChatReceive(t, body)
        \/ ChatReturn(t)
        \/ ChatRetrieve(t)
        \/ ChatSynthesize(t)
        \/ Finish(t)

Spec == Init /\ [][Next]_vars

\* ------------------------------------------------- the splitter on its own
\* Valid splitter settings: chunk_size > 0 and 0 <= chunk_overlap < chunk_size.
ValidSettings(size, overlap) == size > 0 /\ 0 <= overlap /\ overlap < size

\* Every short text under every valid small setting.
SmallInputs ==
    {x \in [len : 0..MaxTextLen, size : 1..MaxChunkSize,
            overlap : 0..(MaxChunkSize - 1)] :
        ValidSettings(x.size, x.overlap)}

\* The settings the handlers pass (chunk_size=800, chunk_overlap=80 and
\* chunk_size=1000, chunk_overlap=100) on texts of the lengths served.
ConfiguredInputs ==
    {[len |-> l, size |-> ChunkSize, overlap |-> ChunkOverlap] :
        l \in DocLens \cup {PriorLen}}
    \cup {[len |-> 2500, size |-> 1000, overlap |-> 100]}

ChunkInit ==
    /\ req = [t \in Threads |-> IdleReq]
    /\ fs = <<>>
    /\ index = {}
    /\ vsConstructions = 1
    /\ started = 0
    /\ indexDim = EmbedderDim
    /\ \E x \in SmallInputs \cup ConfiguredInputs :
          chunking = [pc |-> "input", len |-> x.len, size |-> x.size,
                      overlap |-> x.overlap, chunks |-> <<>>]

\* text_splitter.split_documents(docs) on the text drawn.
Chunk ==
    /\ chunking.pc = "input"
    /\ chunking' = [chunking EXCEPT
          !.pc = "done",
          !.chunks = split_text(chunking.len, chunking.size, chunking.overlap, 0)]
    /\ UNCHANGED <<req, fs, index, vsConstructions, started, indexDim>>

ChunkNext == Chunk

ChunkSpec == ChunkInit /\ [][ChunkNext]_vars

\* ------------------------------------------------------------- properties
Visited(r, stage) == \E i \in DOMAIN r.trace : r.trace[i] = stage

IsPrefix(s, c) == Len(s) <= Len(c) /\ SubSeq(c, 1, Len(s)) = s

Front(s) == SubSeq(s, 1, Len(s) - 1)

Last(s) == s[Len(s)]

\* The chunks of the document a request extracted from its saved file.
ChunksOf(r) == split_documents(r.filepath, r.loaded)

\* C1: an /upload request answers 'Successfully indexed' only if every
\* chunk of its document was upserted and is held by the index; a request
\* whose upsert failed for some chunk, so that the index holds none or only
\* some of the chunks, answers with an error.
C1_IndexedOnlyIfAllUpserted ==
    \A t \in Threads :
        LET r == req[t] IN
        r.kind = "upload" /\ r.stage \in Terminal =>
            /\ r.response.key = "message" =>
                  \A i \in 1..Len(ChunksOf(r)) :
                      IndexRecord(r.no, i, ChunksOf(r)[i]) \in index
            /\ (\E i \in 1..Len(r.splits) :
                    IndexRecord(r.no, i, r.splits[i]) \notin index) =>
                  r.response.key = "error" /\ r.response.code = 500

\* A two-chunk document was indexed and reported as such.
C1_Witness ==
    \E t \in Threads :
        /\ req[t].kind = "upload" /\ req[t].response.key = "message"
        /\ Len(req[t].splits) = 2 /\ req[t].upserted = 2

\* C2 (as claimed): ingesting a document that the index already holds, in
\* sequence with no other request in flight, leaves the index with the same
\* records for it: the second ingestion adds no duplicates.
C2_ReindexAddsNothing ==
    \A t \in Threads :
        LET r == req[t] IN
        (/\ r.kind = "upload" /\ r.stage = "Done"
         /\ r.overlap = "none" /\ r.loaded = r.doc
         /\ r.before = Len(Windows(r.doc, 0)))
        => CountFor(index, r.filepath, r.doc) = r.before

UploadStages == <<"Received", "Chunked", "Embedded", "Indexed", "Done">>

\* C3: an /upload request visits Received, Chunked, Embedded, Indexed, Done
\* in that order without skipping or repeating a stage; a failure moves it
\* to Failed, which is terminal, and a request that raised performs no
\* later stage.  (A request refused as not a PDF ends in Rejected.)
C3_UploadStageOrder ==
    \A t \in Threads :
        LET r == req[t] IN
        r.kind = "upload" =>
            /\ \/ IsPrefix(r.trace, UploadStages)
               \/ /\ Last(r.trace) = "Failed"
                  /\ IsPrefix(Front(r.trace), Front(UploadStages))
               \/ r.trace = <<"Received", "Rejected">>
            /\ r.stage = Last(r.trace)
            /\ r.cause # "none" <=> r.stage = "Failed"
            /\ r.stage = "Failed" => r.response.key = "error"
            /\ r.stage \in {"Indexed", "Done"} => AllUpserted(r)

\* An upload reached Done through every stage, and another failed midway.
C3_Witness ==
    /\ \E t \in Threads :
          req[t].kind = "upload" /\ req[t].trace = UploadStages
    /\ \E t \in Threads :
          /\ req[t].kind = "upload"
          /\ req[t].trace = <<"Received", "Chunked", "Embedded", "Failed">>

FailureStages == {"ingestion", "retrieval", "synthesis"}

\* C4 (as claimed): the error response identifies the failing stage, so two
\* requests that failed in different stages (ingestion, retrieval,
\* synthesis) never receive the same response.
C4_StageIdentified ==
    \A t, u \in Threads :
        (/\ req[t].stage = "Failed" /\ req[u].stage = "Failed"
         /\ req[t].failedAt \in FailureStages
         /\ req[u].failedAt \in FailureStages
         /\ req[t].failedAt # req[u].failedAt)
        => req[t].response # req[u].response

ChatStages == <<"Received", "Retrieved", "Synthesized", "Done">>

\* C5: a /chat request visits Received, Retrieved, Synthesized, Done in that
\* order; the model is called only after retrieval returned, an answer is
\* returned only after synthesis, and a failure ends the request in Failed
\* with an error and no answer.
C5_ChatStageOrder ==
    \A t \in Threads :
        LET r == req[t] IN
        r.kind = "chat" =>
            /\ \/ IsPrefix(r.trace, ChatStages)
               \/ /\ Last(r.trace) = "Failed"
                  /\ IsPrefix(Front(r.trace), Front(ChatStages))
            /\ r.stage = Last(r.trace)
            /\ r.genCalls > 0 => Visited(r, "Retrieved")
            /\ r.response.key = "answer" =>
                  Visited(r, "Synthesized") /\ r.stage = "Done"
            /\ r.cause # "none" <=> r.stage = "Failed"
            /\ r.stage = "Failed" =>
                  r.response.key = "error" /\ r.response.code = 500

\* One query was answered while another failed in synthesis.
C5_Witness ==
    /\ \E t \in Threads : req[t].kind = "chat" /\ req[t].trace = ChatStages
    /\ \E t \in Threads :
          /\ req[t].kind = "chat"
          /\ req[t].trace = <<"Received", "Retrieved", "Failed">>

\* C6: when retrieval returned nothing, the query path still makes exactly
\* one generation call, whose prompt has an empty context and the question
\* verbatim; no reply is built without the model.
C6_EmptyRetrievalStillGenerates ==
    \A t \in Threads :
        LET r == req[t] IN
        (/\ r.kind = "chat" /\ r.retrieved = <<>>
         /\ r.stage \in {"Synthesized", "Done"})
        => /\ r.genCalls = 1
           /\ r.prompt.context = <<>>
           /\ r.prompt.input = r.question
           /\ r.answer \in ModelTexts

\* A query on an empty index was answered.
C6_Witness ==
    \E t \in Threads :
        /\ req[t].kind = "chat" /\ req[t].stage = "Done"
        /\ req[t].retrieved = <<>> /\ index = {}

\* str(e) of the exceptions the Embedder, Vector Index and Generator raise.
CollaboratorErrors == ProviderErrors \cup {DimensionMismatch}

\* A /chat request with a question, served while the index held no record.
EmptyIndexQuery(r) ==
    /\ r.kind = "chat" /\ r.stage \in Terminal
    /\ r.question # NoBody
    /\ index = {}

\* C7 (as claimed): a query against an index with zero records ends as a
\* success whose answer is the not-found message, never as an error.
C7_EmptyIndexAnswersNotFound ==
    \A t \in Threads :
        EmptyIndexQuery(req[t]) =>
            req[t].response = jsonify(200, "answer", <<NotFoundMessage>>)

\* C7 (amended): a query against an index with zero records never fails for
\* want of context: it ends in error only when a collaborator call raised,
\* and otherwise as a success whose answer is the text the model returned
\* for the prompt with the not-found instruction and an empty context.
C7_EmptyIndexAnswersModelText ==
    \A t \in Threads :
        LET r == req[t] IN
        EmptyIndexQuery(r) =>
            /\ r.response.key = "error" => r.cause \in CollaboratorErrors
            /\ r.cause \notin CollaboratorErrors =>
                  /\ r.response = jsonify(200, "answer", <<r.answer>>)
                  /\ r.answer \in ModelTexts
                  /\ r.prompt = RenderPrompt(r.question, <<>>)
                  /\ r.genCalls = 1

\* A query on an empty index was answered with the not-found message.
C7_Witness ==
    \E t \in Threads :
        /\ EmptyIndexQuery(req[t])
        /\ req[t].response = jsonify(200, "answer", <<NotFoundMessage>>)

\* The text of an index record, as it appears in a prompt.
PassageText(rec) == [doc |-> rec.doc, start |-> rec.start, end |-> rec.end]

\* C8: the passages handed to synthesis are the first min(k, n) entries of
\* the index's ranking for the question, in that order, with k the
\* configured top-k and n the number of matches: never more than k, never
\* padded, never re-ordered.
C8_TopKInIndexOrder ==
    \A t \in Threads :
        LET r == req[t]
            n == Len(r.ranking)
        IN  r.kind = "chat" /\ Visited(r, "Synthesized") =>
               /\ Len(r.prompt.context) = Min(TopK, n)
               /\ \A i \in 1..Min(TopK, n) :
                     r.prompt.context[i] = PassageText(r.ranking[i])

\* A query that found more matches than k was answered from the first k.
C8_Witness ==
    \E t \in Threads :
        /\ req[t].kind = "chat" /\ req[t].stage = "Done"
        /\ Len(req[t].ranking) > TopK
        /\ Len(req[t].prompt.context) = TopK

\* C9 (as claimed): the Vector Index client is constructed once, at
\* start-up; no request constructs another.
C9_ConstructedOnce == vsConstructions = 1

\* C10 (as claimed): a request that never shared its document identifier
\* (the uploaded file name) with a request in flight beside it behaves as
\* when it runs alone: its saved file is there when it loads and removes
\* it, and it indexes its own document.
C10_Independent ==
    \A t \in Threads :
        LET r == req[t] IN
        r.kind = "upload" /\ r.overlap # "same" =>
            /\ r.cause # FileNotFound
            /\ Visited(r, "Chunked") => r.loaded = r.doc

\* C11 (as claimed): when the chunks' embedding vectors have a length other
\* than the index's dimension, the upload fails with a ConfigurationError
\* before any upsert call reaches the Vector Index.
C11_GuardedBeforeIndex ==
    \A t \in Threads :
        LET r == req[t] IN
        (/\ r.kind = "upload" /\ Visited(r, "Embedded")
         /\ Len(r.splits) > 0
         /\ EmbedderDim # indexDim)
        => /\ r.upsertCalls = 0
           /\ r.stage \in Terminal => r.cause = "ConfigurationError"

\* The step in which thread t's upload request returns its response.
UploadResponds(t) ==
    /\ req[t].stage \notin Terminal
    /\ req'[t].kind = "upload" /\ req'[t].stage \in Terminal

\* C13 (as claimed): when an /upload request that saved its file responds,
\* on success or on any failure, the saved file no longer exists; a request
\* refused as not a PDF saves no file and makes no index call.
C13_NeverLeftPersisted ==
    [][\A t \in Threads :
          UploadResponds(t) =>
             /\ req'[t].stage \in {"Done", "Failed"} =>
                   req'[t].filepath \notin DOMAIN fs'
             /\ req'[t].stage = "Rejected" =>
                   /\ fs' = fs /\ index' = index
                   /\ req'[t].upsertCalls = 0]_vars

\* Number of chunks that hold character c.
Cover(c, chunks) ==
    Cardinality({i \in 1..Len(chunks) : chunks[i].start <= c /\ c < chunks[i].end})

\* Character c lies in the region two consecutive chunks share.
InOverlap(c, chunks) ==
    \E i \in 1..(Len(chunks) - 1) : chunks[i + 1].start <= c /\ c < chunks[i].end

\* Every character outside the overlapped regions lies in exactly one
\* chunk, every character inside one lies in exactly two.
ExactCoverage(len, chunks) ==
    \A c \in 0..(len - 1) :
        Cover(c, chunks) = (IF InOverlap(c, chunks) THEN 2 ELSE 1)

\* The chunks are the windows [k*step, min(k*step + size, len)) with
\* step = size - overlap, and end with the window that reaches the end.
SlidingWindows(len, size, overlap, chunks) ==
    /\ \A i \in 1..Len(chunks) :
          /\ chunks[i].start = (i - 1) * (size - overlap)
          /\ chunks[i].end = Min(chunks[i].start + size, len)
          /\ chunks[i].end = len <=> i = Len(chunks)
    /\ chunks = <<>> <=> len = 0

====
